---- MODULE Spec2Model ----
(***************************************************************************)
(* Interrupt subsystem of the kernel (src/src/interrupts.rs): the vector   *)
(* table (IDT), the chained 8259 controllers behind the PICS guard, the    *)
(* exception handlers (breakpoint, double fault, page fault) and the       *)
(* device handlers (timer, keyboard) with the scan-code decoder.           *)
(*                                                                         *)
(* One CPU.  `stack` is the chain of handler invocations in progress; the  *)
(* code below them (kernel code outside this file) is "main".              *)
(***************************************************************************)
EXTENDS Integers, Sequences, FiniteSets, TLC

(* ------------------------------ bounds --------------------------------- *)
\* device interrupt requests raised by the hardware in one run
MaxIrq == 2
\* exceptions / software interrupts triggered by main code in one run
MaxExc == 1
\* calls of init_idt in one run
MaxInit == 2

(* ---------------------------- constants -------------------------------- *)
\* variant: the controllers left at their power-on mapping, whose first
\* vector is number 8
PIC_1_OFFSET_power_on == 2 * 4

PIC_1_OFFSET == 32
PIC_2_OFFSET == (PIC_1_OFFSET + 8) % 256

\* x86_64::structures::idt::InterruptDescriptorTable: the named fields used
\* by the build are the architectural vectors of these exceptions
BREAKPOINT_VECTOR == 3
DOUBLE_FAULT_VECTOR == 8
PAGE_FAULT_VECTOR == 14

\* gdt::DOUBLE_FAULT_IST_INDEX, the index published by the stack-switch resource
DOUBLE_FAULT_IST_INDEX == 0

Vectors == 0..255

(* --------------------------- InterruptIndex ---------------------------- *)
NoDisc == -1

\* the variants of the enum in declaration order, with the explicit
\* discriminant where the source gives one
Variants ==
  << [name |-> "Breakpoint",  disc |-> NoDisc],
     [name |-> "DoubleFault", disc |-> NoDisc],
     [name |-> "PageFault",   disc |-> NoDisc],
     [name |-> "Timer",       disc |-> PIC_1_OFFSET],
     [name |-> "Keyboard",    disc |-> (PIC_1_OFFSET + 1) % 256] >>

InterruptIndex == { Variants[i].name : i \in 1..Len(Variants) }

\* #[repr(u8)]: an explicit discriminant is taken as written, an implicit one
\* is the previous variant's plus one, the first being 0
RECURSIVE Discriminant(_)
Discriminant(i) ==
  IF Variants[i].disc # NoDisc THEN Variants[i].disc
  ELSE IF i = 1 THEN 0
  ELSE (Discriminant(i - 1) + 1) % 256

as_u8(i) == Discriminant(CHOOSE k \in 1..Len(Variants) : Variants[k].name = i)

as_usize(i) == as_u8(i)

(* ------------------------------ the IDT -------------------------------- *)
\* A table is held as the set of its present gates, [vec, handler, ist]; a
\* vector without a gate in the set has the missing entry.

\* Entry::missing(): not present, no handler, no stack switch
MissingEntry == [handler |-> "missing", ist |-> 0]

\* InterruptDescriptorTable::new(): every entry missing
NewTable == {}

\* the entry of table t at vector v
EntryAt(t, v) ==
  IF \E g \in t : g.vec = v
  THEN LET g == CHOOSE x \in t : x.vec = v
       IN  [handler |-> g.handler, ist |-> g.ist]
  ELSE MissingEntry

\* assignment to the entry of t at vector v (idt.field / idt[index])
SetEntry(t, v, e) ==
  {g \in t : g.vec # v} \cup {[vec |-> v, handler |-> e.handler, ist |-> e.ist]}

\* Entry::set_handler_fn: present interrupt gate (interrupts disabled on
\* entry), running on the current stack
set_handler_fn(e, h) == [handler |-> h, ist |-> 0]

\* EntryOptions::set_stack_index: the hardware IST field is index + 1,
\* 0 meaning "no stack switch"
set_stack_index(e, index) == [e EXCEPT !.ist = index + 1]

\* variant: the breakpoint handler registered by index, with the number the
\* enum gives the variant, instead of through the named field
BuildIDT_by_index ==
  LET t0 == NewTable
      t1 == SetEntry(t0, as_usize("Breakpoint"),
                     set_handler_fn(EntryAt(t0, as_usize("Breakpoint")), "breakpoint"))
      t2 == SetEntry(t1, DOUBLE_FAULT_VECTOR,
                     set_stack_index(
                       set_handler_fn(EntryAt(t1, DOUBLE_FAULT_VECTOR), "double_fault"),
                       DOUBLE_FAULT_IST_INDEX))
      t3 == SetEntry(t2, PAGE_FAULT_VECTOR,
                     set_handler_fn(EntryAt(t2, PAGE_FAULT_VECTOR), "page_fault"))
      t4 == SetEntry(t3, as_usize("Timer"),
                     set_handler_fn(EntryAt(t3, as_usize("Timer")), "timer"))
      t5 == SetEntry(t4, as_usize("Keyboard"),
                     set_handler_fn(EntryAt(t4, as_usize("Keyboard")), "keyboard"))
  IN  t5

\* variant: the double-fault handler registered without its stack index
BuildIDT_no_stack_index ==
  LET t0 == NewTable
      t1 == SetEntry(t0, BREAKPOINT_VECTOR,
                     set_handler_fn(EntryAt(t0, BREAKPOINT_VECTOR), "breakpoint"))
      t2 == SetEntry(t1, DOUBLE_FAULT_VECTOR,
                     set_handler_fn(EntryAt(t1, DOUBLE_FAULT_VECTOR), "double_fault"))
      t3 == SetEntry(t2, PAGE_FAULT_VECTOR,
                     set_handler_fn(EntryAt(t2, PAGE_FAULT_VECTOR), "page_fault"))
      t4 == SetEntry(t3, as_usize("Timer"),
                     set_handler_fn(EntryAt(t3, as_usize("Timer")), "timer"))
      t5 == SetEntry(t4, as_usize("Keyboard"),
                     set_handler_fn(EntryAt(t4, as_usize("Keyboard")), "keyboard"))
  IN  t5

\* the initialiser of the lazy static IDT
BuildIDT ==
  LET t0 == NewTable
      t1 == SetEntry(t0, BREAKPOINT_VECTOR,
                     set_handler_fn(EntryAt(t0, BREAKPOINT_VECTOR), "breakpoint"))
      t2 == SetEntry(t1, DOUBLE_FAULT_VECTOR,
                     set_stack_index(
                       set_handler_fn(EntryAt(t1, DOUBLE_FAULT_VECTOR), "double_fault"),
                       DOUBLE_FAULT_IST_INDEX))
      t3 == SetEntry(t2, PAGE_FAULT_VECTOR,
                     set_handler_fn(EntryAt(t2, PAGE_FAULT_VECTOR), "page_fault"))
      t4 == SetEntry(t3, as_usize("Timer"),
                     set_handler_fn(EntryAt(t3, as_usize("Timer")), "timer"))
      t5 == SetEntry(t4, as_usize("Keyboard"),
                     set_handler_fn(EntryAt(t4, as_usize("Keyboard")), "keyboard"))
  IN  t5

\* the lazy static before its first dereference; runs counts the executions
\* of its initialiser
UninitIDT == [built |-> FALSE, table |-> {}, runs |-> 0]

\* variant: a later dereference starts over from an empty table
DerefIDT_rebuild(cur) ==
  IF ~cur.built THEN [built |-> TRUE, table |-> BuildIDT, runs |-> cur.runs + 1]
  ELSE [built |-> TRUE, table |-> NewTable, runs |-> cur.runs]

\* variant: the table comes from a function that builds it at every use
DerefIDT_every_time(cur) ==
  [built |-> TRUE, table |-> BuildIDT, runs |-> cur.runs + 1]

\* first dereference of the lazy static runs the initialiser, later ones
\* return the value built then
DerefIDT(cur) ==
  IF ~cur.built THEN [built |-> TRUE, table |-> BuildIDT, runs |-> cur.runs + 1]
  ELSE cur

(* ------------------- the 8259 pair behind PICS ------------------------- *)
\* interrupt request lines: 0..7 on the primary chip, 8..15 on the secondary
TIMER_LINE == 0
KEYBOARD_LINE == 1

Min(S) == CHOOSE x \in S : \A y \in S : x <= y

\* the vector the chips put on the bus for a line
LineVector(l) ==
  IF l < 8 THEN (PIC_1_OFFSET + l) % 256 ELSE (PIC_2_OFFSET + (l - 8)) % 256

\* Pic::handles_interrupt for the primary and the secondary chip
HandlesPrimary(v) == PIC_1_OFFSET <= v /\ v < PIC_1_OFFSET + 8
HandlesSecondary(v) == PIC_2_OFFSET <= v /\ v < PIC_2_OFFSET + 8

\* Pic::end_of_interrupt: the non-specific EOI command clears the
\* highest-priority in-service bit of that chip
EndOfInterrupt(inService, lines) ==
  IF inService \cap lines = {} THEN inService
  ELSE inService \ {Min(inService \cap lines)}

\* ChainedPics::notify_end_of_interrupt(interrupt_id)
notify_end_of_interrupt(inService, id) ==
  IF ~(HandlesPrimary(id) \/ HandlesSecondary(id)) THEN inService
  ELSE LET s2 == IF HandlesSecondary(id)
                 THEN EndOfInterrupt(inService, 8..15) ELSE inService
       IN  EndOfInterrupt(s2, 0..7)

(* ------------------------ the keyboard decoder ------------------------- *)
NoByte == -1
EXTENDED_KEY_CODE == 224

\* the scan-code bytes the keyboard hardware delivers in this model:
\* 0x00 (no key), 0x1E A, 0x9E A released, 0x2A left shift, 0xAA left shift
\* released, 0x47 keypad 7 (Home after the prefix), 0xE0 extended prefix
Bytes == {0, 30, 158, 42, 170, 71, 224}

\* ScancodeSet1::map_scancode on the codes those bytes carry
map_scancode(code) ==
  CASE code = 30 -> "A"
    [] code = 42 -> "ShiftLeft"
    [] code = 71 -> "Numpad7"
    [] code \in {0, 96} -> "UnknownKeyCode"

\* ScancodeSet1::map_extended_scancode on the same codes
map_extended_scancode(code) ==
  CASE code = 71 -> "Home"
    [] code \in {0, 30, 42, 96} -> "UnknownKeyCode"

NoEv == [code |-> "none", state |-> "none"]

\* Ok(Some(KeyEvent)) or Err(UnknownKeyCode) from a mapped code
EventOrErr(st, code, keyState) ==
  IF code = "UnknownKeyCode"
  THEN [state |-> st, res |-> "Err", ev |-> NoEv]
  ELSE [state |-> st, res |-> "OkSome",
        ev |-> [code |-> code, state |-> keyState]]

\* ScancodeSet1::advance_state, reached through Keyboard::add_byte
add_byte(st, byte) ==
  IF st = "Start"
  THEN IF byte = EXTENDED_KEY_CODE
       THEN [state |-> "Extended", res |-> "OkNone", ev |-> NoEv]
       ELSE IF byte >= 128
       THEN EventOrErr("Start", map_scancode(byte - 128), "Up")
       ELSE EventOrErr("Start", map_scancode(byte), "Down")
  ELSE IF byte >= 128
       THEN EventOrErr("Start", map_extended_scancode(byte - 128), "Up")
       ELSE EventOrErr("Start", map_extended_scancode(byte), "Down")

NoKey == [kind |-> "none", text |-> ""]

\* layouts::Azerty::map_keycode (HandleControl::Ignore) on the key codes
\* above, with the decoder's initial num lock (on), which no byte here changes
map_keycode(code, lshift) ==
  CASE code = "A" -> [kind |-> "Unicode", text |-> IF lshift THEN "Q" ELSE "q"]
    [] code = "Numpad7" -> [kind |-> "Unicode", text |-> "7"]
    [] OTHER -> [kind |-> "RawKey", text |-> code]

\* Keyboard::process_keyevent: modifier keys update the modifier state and
\* decode to nothing, any other key decodes on its press only
process_keyevent(lshift, ev) ==
  IF ev.code = "ShiftLeft"
  THEN [lshift |-> (ev.state = "Down"), key |-> NoKey]
  ELSE IF ev.state = "Down"
  THEN [lshift |-> lshift, key |-> map_keycode(ev.code, lshift)]
  ELSE [lshift |-> lshift, key |-> NoKey]

\* the lazy static KEYBOARD before its first dereference
UninitKeyboard == [built |-> FALSE, state |-> "Start", lshift |-> FALSE]

\* variant: the decoder is a local of the handler, made anew by every
\* invocation
DerefKeyboard_fresh(cur) == [built |-> TRUE, state |-> "Start", lshift |-> FALSE]

\* Keyboard::new(layouts::Azerty, ScancodeSet1, HandleControl::Ignore) on the
\* first dereference, the same decoder afterwards
DerefKeyboard(cur) ==
  IF ~cur.built THEN [built |-> TRUE, state |-> "Start", lshift |-> FALSE]
  ELSE cur

\* what print! writes for a decoded key: "{}" of the character, or "{:?}" of
\* the raw key (the name of the key code)
PrintKey(key) ==
  IF key.kind = "Unicode" THEN [kind |-> "char", text |-> key.text]
  ELSE [kind |-> "raw", text |-> key.text]

(* ------------------------------ state ---------------------------------- *)
VARIABLES
  IDT,        \* the lazy static IDT
  idtr,       \* what the CPU's table register points at: "null" or "IDT"
  firstLoad,  \* history: the table the CPU got at the first load
  loads,      \* history: calls of init_idt so far
  picInit,    \* the controllers have been remapped and unmasked
  irr,        \* controller lines requested and not yet delivered
  isr,        \* controller lines in service (delivered, not yet acknowledged)
  picsLock,   \* holder of the PICS guard, or "free"
  iflag,      \* the CPU's interrupt-enable flag (IF)
  cpu,        \* "running", "halted" or "reset" (triple fault)
  rsp,        \* main code's stack pointer: "ok" or "bad"
  rip,        \* main code's instruction pointer
  cr2,        \* the fault-address register
  stack,      \* handler invocations in progress, innermost last
  KEYBOARD,   \* the lazy static decoder of the keyboard handler
  kbLock,     \* holder of the KEYBOARD guard, or "free"
  port60,     \* the byte waiting in the keyboard data port, or NoByte
  output,     \* what has reached the output surface (print!)
  log,        \* what has reached the logging surface (debug!, error!)
  lastEoi,    \* history: the last end-of-interrupt call made, or NoEoi
  fed,        \* history: the bytes the keyboard handler has read
  nIrq,       \* history: device interrupt requests raised
  nExc,       \* history: exceptions and software interrupts triggered
  faulted     \* history: the address of the last page fault raised, or NoAddr

vars == << IDT, idtr, firstLoad, loads, picInit, irr, isr, picsLock, iflag, cpu,
           rsp, rip, cr2, stack, KEYBOARD, kbLock, port60, output, log,
           lastEoi, fed, nIrq, nExc, faulted >>

\* the variables grouped by what an action leaves alone
tableVars == << IDT, idtr, firstLoad, loads >>
picVars   == << picInit, irr, isr, picsLock >>
kbVars    == << KEYBOARD, kbLock, port60, output, fed >>
envVars   == << nIrq, nExc, faulted >>

NoAddr == -1
NoEoi == [id |-> -1, by |-> "none", svc |-> -1, inService |-> {}]

\* addresses main code may fault on, and the page-fault error codes
Addrs == {0, 4096}
ErrCodes == {0, 2}

Init ==
  /\ IDT = UninitIDT
  /\ idtr = "null"
  /\ firstLoad = {}
  /\ loads = 0
  /\ picInit = FALSE
  /\ irr = {}
  /\ isr = {}
  /\ picsLock = "free"
  /\ iflag = FALSE
  /\ cpu = "running"
  /\ rsp = "ok"
  /\ rip = 0
  /\ cr2 = 0
  /\ stack = <<>>
  /\ KEYBOARD = UninitKeyboard
  /\ kbLock = "free"
  /\ port60 = NoByte
  /\ output = <<>>
  /\ log = <<>>
  /\ lastEoi = NoEoi
  /\ fed = <<>>
  /\ nIrq = 0
  /\ nExc = 0
  /\ faulted = NoAddr

(* --------------------------- CPU dispatch ------------------------------ *)
\* the table the CPU dispatches through: the static the register points at,
\* no gate at all before the first load
CpuTable == IF idtr = "IDT" THEN IDT.table ELSE NewTable

\* main code is running, and is not inside a call of send_bye_signal
MainRunning == stack = <<>> /\ cpu = "running" /\ picsLock # "main"
InHandler == stack # <<>> /\ cpu = "running"
Top == stack[Len(stack)]
SetTop(f) == [stack EXCEPT ![Len(stack)] = f]

\* where each handler's body starts
EntryPc(h) ==
  CASE h = "breakpoint"   -> "bp_log"
    [] h = "double_fault" -> "df_log"
    [] h = "page_fault"   -> "pf_log"
    [] h = "timer"        -> "timer_body"
    [] h = "keyboard"     -> "kb_lock"

\* a gate can be entered when it is present and the stack the frame is pushed
\* on is usable: its dedicated stack if it names one, else the current stack
Dispatchable(e) == e.handler # "missing" /\ (e.ist # 0 \/ rsp = "ok")

NewFrame(e, v, cause, ret, err) ==
  [h |-> e.handler, pc |-> EntryPc(e.handler), vec |-> v, cause |-> cause,
   ist |-> e.ist, ret |-> ret, savedIF |-> iflag, err |-> err, arg |-> "none",
   eoi |-> 0, reads |-> 0, emitted |-> 0, byte |-> NoByte, pre |-> "none",
   res |-> "none",
   ev |-> NoEv, key |-> NoKey]

\* variant: the handlers registered behind trap gates, which leave the
\* interrupt flag as it is on entry
Enter_trap_gate(v, ret, err) ==
  LET e  == EntryAt(CpuTable, v)
      df == EntryAt(CpuTable, DOUBLE_FAULT_VECTOR)
  IN  IF Dispatchable(e)
      THEN /\ stack' = Append(stack, NewFrame(e, v, v, ret, err))
           /\ iflag' = iflag
           /\ cpu' = "running"
      ELSE IF Dispatchable(df)
      THEN /\ stack' = Append(stack, NewFrame(df, DOUBLE_FAULT_VECTOR, v, ret, 0))
           /\ iflag' = iflag
           /\ cpu' = "running"
      ELSE /\ stack' = stack
           /\ iflag' = iflag
           /\ cpu' = "reset"

\* delivery of vector v: through its gate; if that fails (gate not present,
\* or the frame cannot be pushed) the CPU escalates to a double fault; if that
\* gate fails too, to a triple fault, which resets the machine.  Interrupt
\* gates clear IF on entry.
Enter(v, ret, err) ==
  LET e  == EntryAt(CpuTable, v)
      df == EntryAt(CpuTable, DOUBLE_FAULT_VECTOR)
  IN  IF Dispatchable(e)
      THEN /\ stack' = Append(stack, NewFrame(e, v, v, ret, err))
           /\ iflag' = FALSE
           /\ cpu' = "running"
      ELSE IF Dispatchable(df)
      THEN /\ stack' = Append(stack, NewFrame(df, DOUBLE_FAULT_VECTOR, v, ret, 0))
           /\ iflag' = FALSE
           /\ cpu' = "running"
      ELSE /\ stack' = stack
           /\ iflag' = iflag
           /\ cpu' = "reset"

(* ------------------------- main code and boot -------------------------- *)
\* pub fn init_idt()
init_idt ==
  /\ MainRunning
  /\ loads < MaxInit
  /\ log' = Append(log, <<"debug", "Initialisation of the IDT">>)
  /\ IDT' = DerefIDT(IDT)
  /\ idtr' = "IDT"
  /\ loads' = loads + 1
  /\ firstLoad' = IF loads = 0 THEN IDT'.table ELSE firstLoad
  /\ UNCHANGED << picVars, iflag, cpu, rsp, rip, cr2, stack, kbVars, lastEoi, envVars >>

\* PICS.lock().initialize(), done by the kernel's boot code
PicsInitialize ==
  /\ MainRunning
  /\ ~picInit
  /\ ~iflag
  /\ picsLock = "free"
  /\ picInit' = TRUE
  /\ UNCHANGED << tableVars, irr, isr, picsLock, iflag, cpu, rsp, rip, cr2, stack,
                  kbVars, log, lastEoi, envVars >>

\* the boot code enables interrupts once the table is loaded and the
\* controllers are initialised
EnableInterrupts ==
  /\ MainRunning
  /\ ~iflag
  /\ idtr = "IDT"
  /\ picInit
  /\ iflag' = TRUE
  /\ UNCHANGED << tableVars, picVars, cpu, rsp, rip, cr2, stack, kbVars, log,
                  lastEoi, envVars >>

\* x86_64::instructions::interrupts::int3() (test_breakpoint_exception): a
\* trap, the saved instruction pointer is the next instruction
Int3 ==
  /\ MainRunning
  /\ nExc < MaxExc
  /\ nExc' = nExc + 1
  /\ Enter(BREAKPOINT_VECTOR, rip + 1, 0)
  /\ UNCHANGED << tableVars, picVars, rsp, rip, cr2, kbVars, log, lastEoi, nIrq,
                  faulted >>

\* main code touches an unmapped address: the CPU latches the address in CR2
\* and raises the page fault, the saved instruction pointer is the faulting one
PageFaultAt(a, code) ==
  /\ MainRunning
  /\ nExc < MaxExc
  /\ nExc' = nExc + 1
  /\ cr2' = a
  /\ faulted' = a
  /\ Enter(PAGE_FAULT_VECTOR, rip, code)
  /\ UNCHANGED << tableVars, picVars, rsp, rip, kbVars, log, lastEoi, nIrq >>

\* vectors raised by nothing else in this model, triggered by main code
\* (int n, or a CPU exception other than the three above): the first and the
\* last vector, the numbers the enum gives the exception variants, a
\* CPU-reserved one, the first device vector after the keyboard's
OtherVectors == {0, 1, 2, 13, 34, 255}

RaiseVector(v) ==
  /\ MainRunning
  /\ nExc < MaxExc
  /\ nExc' = nExc + 1
  /\ Enter(v, rip, 0)
  /\ UNCHANGED << tableVars, picVars, rsp, rip, cr2, kbVars, log, lastEoi, nIrq,
                  faulted >>

\* main code's stack pointer leaves its stack (overflow, corruption)
CorruptStack ==
  /\ MainRunning
  /\ rsp = "ok"
  /\ nExc < MaxExc
  /\ nExc' = nExc + 1
  /\ rsp' = "bad"
  /\ UNCHANGED << tableVars, picVars, iflag, cpu, rip, cr2, stack, kbVars, log,
                  lastEoi, nIrq, faulted >>

(* ------------------------------ devices -------------------------------- *)
\* the timer chip raises its line
RaiseTimer ==
  /\ picInit
  /\ cpu = "running"
  /\ nIrq < MaxIrq
  /\ TIMER_LINE \notin irr
  /\ irr' = irr \cup {TIMER_LINE}
  /\ nIrq' = nIrq + 1
  /\ UNCHANGED << tableVars, picInit, isr, picsLock, iflag, cpu, rsp, rip, cr2,
                  stack, kbVars, log, lastEoi, nExc, faulted >>

\* the keyboard controller puts a scan-code byte in its data port (when the
\* port is empty) and raises its line
RaiseKeyboard(b) ==
  /\ picInit
  /\ cpu = "running"
  /\ nIrq < MaxIrq
  /\ port60 = NoByte
  /\ KEYBOARD_LINE \notin irr
  /\ port60' = b
  /\ irr' = irr \cup {KEYBOARD_LINE}
  /\ nIrq' = nIrq + 1
  /\ UNCHANGED << tableVars, picInit, isr, picsLock, iflag, cpu, rsp, rip, cr2,
                  stack, KEYBOARD, kbLock, output, fed, log, lastEoi, nExc,
                  faulted >>

\* the controller hands the CPU its highest-priority requested line when
\* interrupts are enabled and no line of the same or higher priority is in
\* service; the line moves from requested to in service
DeliverIrq ==
  /\ iflag
  /\ cpu # "reset"
  /\ irr # {}
  /\ LET l == Min(irr)
     IN  /\ \A s \in isr : l < s
         /\ irr' = irr \ {l}
         /\ isr' = isr \cup {l}
         /\ Enter(LineVector(l), rip, 0)
  /\ UNCHANGED << tableVars, picInit, picsLock, rsp, rip, cr2, kbVars, log,
                  lastEoi, envVars >>

(* ------------------------- send_bye_signal ----------------------------- *)
\* a handler calls InterruptIndex::send_bye_signal(i)
CallBye(f, i) == [f EXCEPT !.pc = "bye_lock", !.arg = i]

\* PICS.lock(): spins until the guard is free
bye_lock ==
  /\ InHandler
  /\ Top.pc = "bye_lock"
  /\ picsLock = "free"
  /\ picsLock' = Top.h
  /\ stack' = SetTop([Top EXCEPT !.pc = "bye_eoi"])
  /\ UNCHANGED << tableVars, picInit, irr, isr, iflag, cpu, rsp, rip, cr2,
                  kbVars, log, lastEoi, envVars >>

\* .notify_end_of_interrupt(i.as_u8())
bye_eoi ==
  /\ InHandler
  /\ Top.pc = "bye_eoi"
  /\ LET id == as_u8(Top.arg)
     IN  /\ isr' = notify_end_of_interrupt(isr, id)
         /\ lastEoi' = [id |-> id, by |-> Top.h, svc |-> Top.vec,
                        inService |-> isr]
  /\ stack' = SetTop([Top EXCEPT !.pc = "bye_unlock", !.eoi = @ + 1])
  /\ UNCHANGED << tableVars, picInit, irr, picsLock, iflag, cpu, rsp, rip, cr2,
                  kbVars, log, envVars >>

\* the guard is dropped at the end of the statement
bye_unlock ==
  /\ InHandler
  /\ Top.pc = "bye_unlock"
  /\ picsLock' = "free"
  /\ stack' = SetTop([Top EXCEPT !.pc = "ret"])
  /\ UNCHANGED << tableVars, picInit, irr, isr, iflag, cpu, rsp, rip, cr2,
                  kbVars, log, lastEoi, envVars >>

(* ------------------------------ handlers ------------------------------- *)
\* what error! prints of an InterruptStackFrame
FrameDebug(f) == [instruction_pointer |-> f.ret]

\* variant: the timer handler acknowledges the keyboard's vector
timer_acks_keyboard ==
  /\ InHandler
  /\ Top.pc = "timer_body"
  /\ stack' = SetTop(CallBye(Top, "Keyboard"))
  /\ UNCHANGED << tableVars, picVars, iflag, cpu, rsp, rip, cr2, kbVars, log,
                  lastEoi, envVars >>

\* extern "x86-interrupt" fn timer
timer ==
  /\ InHandler
  /\ Top.pc = "timer_body"
  /\ stack' = SetTop(CallBye(Top, "Timer"))
  /\ UNCHANGED << tableVars, picVars, iflag, cpu, rsp, rip, cr2, kbVars, log,
                  lastEoi, envVars >>

\* keyboard: let mut keyboard = KEYBOARD.lock()
kb_lock ==
  /\ InHandler
  /\ Top.pc = "kb_lock"
  /\ kbLock = "free"
  /\ KEYBOARD' = DerefKeyboard(KEYBOARD)
  /\ kbLock' = Top.h
  /\ stack' = SetTop([Top EXCEPT !.pc = "kb_read"])
  /\ UNCHANGED << tableVars, picVars, iflag, cpu, rsp, rip, cr2, port60,
                  output, fed, log, lastEoi, envVars >>

\* keyboard: let scancode: u8 = unsafe { port.read() }; reading the data port
\* empties it (an empty port reads as 0)
kb_read ==
  /\ InHandler
  /\ Top.pc = "kb_read"
  /\ LET b == IF port60 = NoByte THEN 0 ELSE port60
     IN  /\ stack' = SetTop([Top EXCEPT !.pc = "kb_add_byte", !.byte = b,
                                        !.reads = @ + 1])
         /\ fed' = Append(fed, b)
  /\ port60' = NoByte
  /\ UNCHANGED << tableVars, picVars, iflag, cpu, rsp, rip, cr2, KEYBOARD,
                  kbLock, output, log, lastEoi, envVars >>

\* variant: the handler returns as soon as the decoder gives no event
AfterAddByte_unacked(f, res) ==
  IF res = "OkSome" THEN [f EXCEPT !.pc = "kb_process"]
  ELSE [f EXCEPT !.pc = "ret"]

\* keyboard: the outer `if let Ok(Some(key_event))`: a completed event goes on
\* to be decoded, no event or an error falls through to the acknowledgement
AfterAddByte(f, res) ==
  IF res = "OkSome" THEN [f EXCEPT !.pc = "kb_process"]
  ELSE CallBye(f, "Keyboard")

\* keyboard: if let Ok(Some(key_event)) = keyboard.add_byte(scancode)
kb_add_byte ==
  /\ InHandler
  /\ Top.pc = "kb_add_byte"
  /\ LET r == add_byte(KEYBOARD.state, Top.byte)
         f == [Top EXCEPT !.pre = KEYBOARD.state, !.res = r.res, !.ev = r.ev]
     IN  /\ KEYBOARD' = [KEYBOARD EXCEPT !.state = r.state]
         /\ stack' = SetTop(AfterAddByte(f, r.res))
  /\ UNCHANGED << tableVars, picVars, iflag, cpu, rsp, rip, cr2, kbLock,
                  port60, output, fed, log, lastEoi, envVars >>

\* variant: the handler returns as soon as the event decodes to no key
AfterProcess_unacked(f, key) ==
  IF key.kind # "none" THEN [f EXCEPT !.pc = "kb_print"]
  ELSE [f EXCEPT !.pc = "ret"]

\* variant: the handler prints whatever process_keyevent returned
AfterProcess_always(f, key) == [f EXCEPT !.pc = "kb_print"]

\* keyboard: the inner `if let Some(key)`: a decoded key goes on to be
\* printed, an event that decodes to nothing falls through
AfterProcess(f, key) ==
  IF key.kind # "none" THEN [f EXCEPT !.pc = "kb_print"]
  ELSE CallBye(f, "Keyboard")

\* keyboard: if let Some(key) = keyboard.process_keyevent(key_event)
kb_process ==
  /\ InHandler
  /\ Top.pc = "kb_process"
  /\ LET r == process_keyevent(KEYBOARD.lshift, Top.ev)
         f == [Top EXCEPT !.key = r.key]
     IN  /\ KEYBOARD' = [KEYBOARD EXCEPT !.lshift = r.lshift]
         /\ stack' = SetTop(AfterProcess(f, r.key))
  /\ UNCHANGED << tableVars, picVars, iflag, cpu, rsp, rip, cr2, kbLock,
                  port60, output, fed, log, lastEoi, envVars >>

\* variant: the keyboard handler acknowledges as soon as it has a key and
\* prints it afterwards
kb_print_after_ack ==
  /\ InHandler
  /\ Top.pc = "kb_print"
  /\ IF Top.eoi = 0
     THEN /\ isr' = notify_end_of_interrupt(isr, as_u8("Keyboard"))
          /\ lastEoi' = [id |-> as_u8("Keyboard"), by |-> Top.h,
                         svc |-> Top.vec, inService |-> isr]
          /\ stack' = SetTop([Top EXCEPT !.eoi = @ + 1])
          /\ output' = output
     ELSE /\ output' = Append(output, PrintKey(Top.key))
          /\ stack' = SetTop([Top EXCEPT !.emitted = @ + 1, !.pc = "ret"])
          /\ UNCHANGED << isr, lastEoi >>
  /\ UNCHANGED << tableVars, picInit, irr, picsLock, iflag, cpu, rsp, rip, cr2,
                  KEYBOARD, kbLock, port60, fed, log, envVars >>

\* keyboard: the match on the decoded key, one print! in either arm
kb_print ==
  /\ InHandler
  /\ Top.pc = "kb_print"
  /\ output' = Append(output, PrintKey(Top.key))
  /\ stack' = SetTop(CallBye([Top EXCEPT !.emitted = @ + 1], "Keyboard"))
  /\ UNCHANGED << tableVars, picVars, iflag, cpu, rsp, rip, cr2, KEYBOARD,
                  kbLock, port60, fed, log, lastEoi, envVars >>

\* variant: the breakpoint handler parks the processor after logging
breakpoint_halts ==
  /\ InHandler
  /\ Top.pc = "bp_log"
  /\ log' = Append(log, <<"error", "BREAKPOINT", FrameDebug(Top)>>)
  /\ stack' = SetTop([Top EXCEPT !.pc = "pf_hlt"])
  /\ UNCHANGED << tableVars, picVars, iflag, cpu, rsp, rip, cr2, kbVars,
                  lastEoi, envVars >>

\* variant: the breakpoint handler ends, like the device handlers, with an
\* acknowledgement
breakpoint_acks ==
  /\ InHandler
  /\ Top.pc = "bp_log"
  /\ log' = Append(log, <<"error", "BREAKPOINT", FrameDebug(Top)>>)
  /\ stack' = SetTop(CallBye(Top, "Breakpoint"))
  /\ UNCHANGED << tableVars, picVars, iflag, cpu, rsp, rip, cr2, kbVars,
                  lastEoi, envVars >>

\* variant: a one-shot breakpoint, the handler takes its own gate out of the
\* table
breakpoint_unregisters ==
  /\ InHandler
  /\ Top.pc = "bp_log"
  /\ log' = Append(log, <<"error", "BREAKPOINT", FrameDebug(Top)>>)
  /\ IDT' = [IDT EXCEPT !.table = {g \in @ : g.vec # BREAKPOINT_VECTOR}]
  /\ stack' = SetTop([Top EXCEPT !.pc = "ret"])
  /\ UNCHANGED << idtr, firstLoad, loads, picVars, iflag, cpu, rsp, rip, cr2,
                  kbVars, lastEoi, envVars >>

\* extern "x86-interrupt" fn breakpoint
breakpoint ==
  /\ InHandler
  /\ Top.pc = "bp_log"
  /\ log' = Append(log, <<"error", "BREAKPOINT", FrameDebug(Top)>>)
  /\ stack' = SetTop([Top EXCEPT !.pc = "ret"])
  /\ UNCHANGED << tableVars, picVars, iflag, cpu, rsp, rip, cr2, kbVars,
                  lastEoi, envVars >>

\* variant: the page-fault handler prints the saved instruction pointer as
\* the accessed address
page_fault_log_ip ==
  /\ InHandler
  /\ Top.pc = "pf_log"
  /\ log' = log \o << <<"error", "PAGE FAULT">>,
                      <<"error", "Accessed Address", Top.ret>>,
                      <<"error", "Error Code", Top.err>>,
                      <<"error", "frame", FrameDebug(Top)>> >>
  /\ stack' = SetTop([Top EXCEPT !.pc = "pf_hlt"])
  /\ UNCHANGED << tableVars, picVars, iflag, cpu, rsp, rip, cr2, kbVars,
                  lastEoi, envVars >>

\* page_fault: the four error! lines, the second printing Cr2::read()
page_fault_log ==
  /\ InHandler
  /\ Top.pc = "pf_log"
  /\ log' = log \o << <<"error", "PAGE FAULT">>,
                      <<"error", "Accessed Address", cr2>>,
                      <<"error", "Error Code", Top.err>>,
                      <<"error", "frame", FrameDebug(Top)>> >>
  /\ stack' = SetTop([Top EXCEPT !.pc = "pf_hlt"])
  /\ UNCHANGED << tableVars, picVars, iflag, cpu, rsp, rip, cr2, kbVars,
                  lastEoi, envVars >>

\* the kernel's halt primitive (hlt_loop): the state it parks the processor in
HaltPrimitive == "halted"

\* the kernel's panic handler: the state a panic leaves the processor in
PanicOutcome == "halted"

\* page_fault: hlt_loop(), never returns
hlt_loop ==
  /\ InHandler
  /\ Top.pc = "pf_hlt"
  /\ cpu' = HaltPrimitive
  /\ stack' = SetTop([Top EXCEPT !.pc = "halted"])
  /\ UNCHANGED << tableVars, picVars, iflag, rsp, rip, cr2, kbVars, log,
                  lastEoi, envVars >>

\* variant: the double-fault handler logs and returns
double_fault_log_returns ==
  /\ InHandler
  /\ Top.pc = "df_log"
  /\ log' = Append(log, <<"error", "DOUBLE-FAULT", FrameDebug(Top)>>)
  /\ stack' = SetTop([Top EXCEPT !.pc = "ret"])
  /\ UNCHANGED << tableVars, picVars, iflag, cpu, rsp, rip, cr2, kbVars,
                  lastEoi, envVars >>

\* double_fault: error!("DOUBLE-FAULT:\n{:#?}", stack_frame)
double_fault_log ==
  /\ InHandler
  /\ Top.pc = "df_log"
  /\ log' = Append(log, <<"error", "DOUBLE-FAULT", FrameDebug(Top)>>)
  /\ stack' = SetTop([Top EXCEPT !.pc = "df_panic"])
  /\ UNCHANGED << tableVars, picVars, iflag, cpu, rsp, rip, cr2, kbVars,
                  lastEoi, envVars >>

\* double_fault: panic!(...); the kernel's panic handler halts the processor
double_fault_panic ==
  /\ InHandler
  /\ Top.pc = "df_panic"
  /\ cpu' = PanicOutcome
  /\ stack' = SetTop([Top EXCEPT !.pc = "halted"])
  /\ UNCHANGED << tableVars, picVars, iflag, rsp, rip, cr2, kbVars, log,
                  lastEoi, envVars >>

\* variant: the keyboard guard outlives the handler (leaked, not dropped)
handler_return_leaks_guard ==
  /\ InHandler
  /\ Top.pc = "ret"
  /\ iflag' = Top.savedIF
  /\ rip' = IF Len(stack) = 1 THEN Top.ret ELSE rip
  /\ stack' = SubSeq(stack, 1, Len(stack) - 1)
  /\ cpu' = IF Len(stack) > 1 /\ stack[Len(stack) - 1].pc = "halted"
            THEN "halted" ELSE "running"
  /\ UNCHANGED << tableVars, picVars, rsp, cr2, kbVars, log, lastEoi, envVars >>

\* the end of a handler that returns: its guards are dropped (the keyboard
\* guard lives to the end of the function) and iretq restores the interrupted
\* code's instruction pointer and flags
handler_return ==
  /\ InHandler
  /\ Top.pc = "ret"
  /\ kbLock' = IF Top.h = "keyboard" THEN "free" ELSE kbLock
  /\ iflag' = Top.savedIF
  /\ rip' = IF Len(stack) = 1 THEN Top.ret ELSE rip
  /\ stack' = SubSeq(stack, 1, Len(stack) - 1)
  /\ cpu' = IF Len(stack) > 1 /\ stack[Len(stack) - 1].pc = "halted"
            THEN "halted" ELSE "running"
  /\ UNCHANGED << tableVars, picVars, rsp, cr2, KEYBOARD, port60, output, fed,
                  log, lastEoi, envVars >>

(* --------------------------- specification ----------------------------- *)
\* the steps of handler code, which the CPU keeps executing
HandlerStep ==
  \/ bye_lock \/ bye_eoi \/ bye_unlock
  \/ timer
  \/ kb_lock \/ kb_read \/ kb_add_byte \/ kb_process \/ kb_print
  \/ breakpoint
  \/ page_fault_log \/ hlt_loop
  \/ double_fault_log \/ double_fault_panic
  \/ handler_return

Next ==
  \/ init_idt
  \/ PicsInitialize
  \/ EnableInterrupts
  \/ Int3
  \/ \E a \in Addrs, c \in ErrCodes : PageFaultAt(a, c)
  \/ \E v \in OtherVectors : RaiseVector(v)
  \/ CorruptStack
  \/ RaiseTimer
  \/ \E b \in Bytes : RaiseKeyboard(b)
  \/ DeliverIrq
  \/ HandlerStep

Spec == Init /\ [][Next]_vars

\* the CPU does not stop executing a handler it has entered
FairSpec == Spec /\ WF_vars(HandlerStep)

(* ------------- main code calling the public send_bye_signal ------------ *)
\* pub fn send_bye_signal called from main code, PICS.lock(): the call does
\* not touch the interrupt flag, so the guard is taken with interrupts as
\* they are
main_bye_lock ==
  /\ MainRunning
  /\ picsLock = "free"
  /\ picsLock' = "main"
  /\ UNCHANGED << tableVars, picInit, irr, isr, iflag, cpu, rsp, rip, cr2,
                  stack, kbVars, log, lastEoi, envVars >>

\* the rest of that call, when main code gets to run it:
\* .notify_end_of_interrupt(i.as_u8()) and the drop of the guard
main_bye_eoi(i) ==
  /\ stack = <<>>
  /\ cpu = "running"
  /\ picsLock = "main"
  /\ LET id == as_u8(i)
     IN  /\ isr' = notify_end_of_interrupt(isr, id)
         /\ lastEoi' = [id |-> id, by |-> "main", svc |-> -1, inService |-> isr]
  /\ picsLock' = "free"
  /\ UNCHANGED << tableVars, picInit, irr, iflag, cpu, rsp, rip, cr2, stack,
                  kbVars, log, envVars >>

NextPreempt ==
  \/ Next
  \/ main_bye_lock
  \/ \E i \in InterruptIndex : main_bye_eoi(i)

\* the program with main code that uses the public send_bye_signal
PreemptSpec == Init /\ [][NextPreempt]_vars /\ WF_vars(HandlerStep)

(* ------------------------------ properties ----------------------------- *)
Frames == { stack[i] : i \in 1..Len(stack) }
DeviceHandlers == {"timer", "keyboard"}
AfterDecode == {"bye_lock", "bye_eoi", "bye_unlock", "ret"}
LastLog == log[Len(log)]
KeyQ == [kind |-> "char", text |-> "q"]

\* C1: a device handler (timer or keyboard) never signals end-of-interrupt
\* more than once, and when it is about to return it has signalled it exactly
\* once, whatever the decoder returned for the byte.
C1_EoiExactlyOnce ==
  \A f \in Frames :
    f.h \in DeviceHandlers =>
      /\ f.eoi <= 1
      /\ f.pc = "ret" => f.eoi = 1
      /\ f.pc \notin {"bye_unlock", "ret"} => f.eoi = 0

\* a keyboard invocation about to return after the decoder rejected its byte
C1_Witness ==
  \E f \in Frames :
    f.h = "keyboard" /\ f.pc = "ret" /\ f.res = "Err" /\ f.eoi = 1

\* C2: every end-of-interrupt is sent by a device handler, carries the vector
\* that handler was entered through (32 from the timer handler, 33 from the
\* keyboard handler), and is sent while that vector's line is the
\* highest-priority line in service, so it is that line the controller clears.
C2_EoiCarriesServicedVector ==
  lastEoi # NoEoi =>
    /\ lastEoi.by \in DeviceHandlers
    /\ lastEoi.id = lastEoi.svc
    /\ lastEoi.by = "timer" => lastEoi.id = 32
    /\ lastEoi.by = "keyboard" => lastEoi.id = 33
    /\ lastEoi.inService # {}
    /\ LineVector(Min(lastEoi.inService)) = lastEoi.id

\* the keyboard handler has acknowledged after the timer handler did
C2_Witness ==
  /\ lastEoi.by = "keyboard"
  /\ lastEoi.id = 33
  /\ nIrq = 2
  /\ fed = <<0>>

\* C3: whether or not the table is loaded, as_u8 gives breakpoint 3, double
\* fault 8, page fault 14, timer the primary remap offset and keyboard the
\* primary remap offset + 1.
C3_VectorNumbers ==
  idtr \in {"null", "IDT"} =>
  /\ as_u8("Breakpoint") = 3
  /\ as_u8("DoubleFault") = 8
  /\ as_u8("PageFault") = 14
  /\ as_u8("Timer") = PIC_1_OFFSET
  /\ as_u8("Keyboard") = PIC_1_OFFSET + 1
  /\ as_usize("Keyboard") = as_usize("Timer") + 1

\* the handler the claim assigns to a vector
ExpectedHandler(v) ==
  CASE v = 3  -> "breakpoint"
    [] v = 8  -> "double_fault"
    [] v = 14 -> "page_fault"
    [] v = 32 -> "timer"
    [] v = 33 -> "keyboard"
    [] OTHER  -> "missing"

\* C4: once built, the table has a handler at exactly the vectors 3, 8, 14, 32
\* and 33, each its own, one gate per vector, and none at any other vector of
\* 0..255; a delivery through any other vector never runs a handler that
\* returns: it ends in the double-fault handler (the CPU's escalation of a
\* missing gate).
C4_TableHandlers ==
  /\ IDT.built =>
       /\ {g.vec : g \in IDT.table} = {3, 8, 14, 32, 33}
       /\ \A g \in IDT.table :
            g.vec \in Vectors /\ g.handler = ExpectedHandler(g.vec)
       /\ \A g1, g2 \in IDT.table : g1.vec = g2.vec => g1 = g2
       /\ \A v \in {0, 2, 4, 7, 9, 13, 15, 31, 34, 47, 255} :
            EntryAt(IDT.table, v) = MissingEntry
  /\ \A f \in Frames :
       ExpectedHandler(f.cause) = "missing" =>
         f.h = "double_fault" /\ f.pc # "ret"

\* vector 13, which has no handler, was triggered with the table loaded
C4_Witness ==
  /\ idtr = "IDT"
  /\ \E f \in Frames : f.cause = 13 /\ f.h = "double_fault" /\ f.pc = "halted"

DfOnStack == \E f \in Frames : f.h = "double_fault"

\* C5: the double-fault handler never signals end-of-interrupt and never
\* reaches a return; it logs first; once entered it stays entered and the
\* processor eventually halts; once halted by it nothing more happens to the
\* handler stack, the controller, the decoder, the output or the log.
C5_DoubleFaultHalts ==
  /\ [](\A f \in Frames :
          f.h = "double_fault" =>
            /\ f.eoi = 0
            /\ f.pc \in {"df_log", "df_panic", "halted"}
            /\ f.pc # "df_log" => LastLog[2] = "DOUBLE-FAULT")
  /\ [][DfOnStack => DfOnStack']_vars
  /\ DfOnStack ~> (cpu = "halted")
  /\ [][(DfOnStack /\ cpu = "halted") =>
          UNCHANGED << cpu, stack, iflag, isr, picsLock, KEYBOARD, kbLock,
                       output, log, lastEoi, rip >>]_vars

\* the processor halted inside the double-fault handler
C5_Witness ==
  /\ cpu = "halted"
  /\ \E f \in Frames : f.h = "double_fault" /\ f.pc = "halted"

PfOnStack == \E f \in Frames : f.h = "page_fault"

\* C6: once the page-fault handler has logged, the log ends with the address
\* that faulted, the error code and the frame; the handler never returns and
\* never acknowledges; once entered the processor eventually halts.
C6_PageFaultLogsAndHalts ==
  /\ [](\A f \in Frames :
          f.h = "page_fault" =>
            /\ f.eoi = 0
            /\ f.pc \in {"pf_log", "pf_hlt", "halted"}
            /\ f.pc # "pf_log" =>
                 /\ Len(log) >= 4
                 /\ SubSeq(log, Len(log) - 3, Len(log)) =
                      << <<"error", "PAGE FAULT">>,
                         <<"error", "Accessed Address", faulted>>,
                         <<"error", "Error Code", f.err>>,
                         <<"error", "frame", [instruction_pointer |-> f.ret]>> >>)
  /\ [][PfOnStack => PfOnStack']_vars
  /\ PfOnStack ~> (cpu = "halted")
  /\ [][(PfOnStack /\ cpu = "halted") => UNCHANGED << cpu, stack, log >>]_vars

\* the processor halted after a page fault at address 4096
C6_Witness ==
  /\ cpu = "halted"
  /\ faulted = 4096
  /\ \E f \in Frames : f.h = "page_fault" /\ f.pc = "halted"

BpOnStack == \E f \in Frames : f.h = "breakpoint"

\* C7: a breakpoint triggered with the table loaded (and a usable stack)
\* enters the breakpoint handler; the handler signals no end-of-interrupt and
\* the processor is running throughout; it logs the frame; it eventually
\* returns, and main code then continues at the instruction after the int3.
C7_BreakpointResumes ==
  /\ [](\A f \in Frames :
          f.h = "breakpoint" =>
            /\ f.eoi = 0
            /\ cpu = "running"
            /\ f.pc = "ret" =>
                 LastLog = <<"error", "BREAKPOINT", [instruction_pointer |-> f.ret]>>)
  /\ [][(idtr = "IDT" /\ rsp = "ok" /\ Len(stack') > Len(stack)
          /\ stack'[Len(stack')].cause = 3) =>
          (stack'[Len(stack')].h = "breakpoint"
            /\ stack'[Len(stack')].ret = rip + 1)]_vars
  /\ [][(BpOnStack /\ ~BpOnStack') =>
          (rip' = rip + 1 /\ cpu' = "running" /\ stack' = <<>>
            /\ iflag' = Top.savedIF)]_vars
  /\ BpOnStack ~> ~BpOnStack

\* main code running again, one instruction further, after a logged breakpoint
C7_Witness ==
  /\ stack = <<>>
  /\ cpu = "running"
  /\ rip = 1
  /\ Len(log) > 0
  /\ LastLog = <<"error", "BREAKPOINT", [instruction_pointer |-> 1]>>

\* C8: a keyboard invocation reads the data port once and prints at most one
\* item; it has printed one exactly when its byte completed a key event that
\* decoded to a key; the output never holds more items than bytes were read;
\* the make and break bytes of the A key alone put exactly one character out.
C8_OneItemPerKey ==
  /\ \A f \in Frames :
       f.h = "keyboard" =>
         /\ f.reads <= 1
         /\ f.emitted <= 1
         /\ f.pc \in AfterDecode =>
              /\ f.reads = 1
              /\ f.emitted = 1 <=>
                   (f.res = "OkSome" /\ f.key.kind \in {"Unicode", "RawKey"})
  /\ Len(output) <= Len(fed)
  /\ (stack = <<>> /\ fed = <<30, 158>>) => output = <<KeyQ>>

\* the A key was pressed and released and one character is out
C8_Witness == stack = <<>> /\ fed = <<30, 158>> /\ Len(output) = 1

\* the parts of C9 about the bad byte itself: nothing is printed for a byte
\* the decoder rejects or only stores, the handler still acknowledges the
\* keyboard vector before it returns, the processor keeps running, and the
\* decoder is idle after every completed or discarded event
C9_BadByteDropped ==
  \A f \in Frames :
    (f.h = "keyboard" /\ f.pc \in AfterDecode) =>
      /\ f.res \in {"Err", "OkNone"} => f.emitted = 0
      /\ f.res \in {"Err", "OkSome"} => KEYBOARD.state = "Start"
      /\ cpu = "running"
      /\ f.pc = "ret" =>
           (f.eoi = 1 /\ lastEoi.by = "keyboard" /\ lastEoi.id = 33)

C10_InitIdempotent ==
  loads >= 2 => (idtr = "IDT" /\ CpuTable = firstLoad)

\* init_idt was called a second time
C10_Witness == loads >= 2 /\ idtr = "IDT" /\ IDT.built

\* C11: from the first load on, the CPU's table register points at the static
\* table, the table is the one loaded first, and no step - an interrupt, a
\* handler's step, another init_idt - changes the table, rebuilds it or takes
\* it away from the CPU.
C11_TableNeverChanges ==
  /\ [](loads >= 1 => (idtr = "IDT" /\ IDT.built /\ IDT.table = firstLoad))
  /\ [][idtr = "IDT" => (idtr' = "IDT" /\ IDT' = IDT)]_vars

\* a key was handled and printed and a breakpoint logged with the table
\* loaded, and init_idt was then called again
C11_Witness ==
  /\ loads = 2
  /\ stack = <<>>
  /\ Len(output) >= 1
  /\ Len(log) >= 3
  /\ LastLog[1] = "debug"
  /\ IDT.table = firstLoad

\* C12: in the built table the double-fault gate, and no other gate, names a
\* dedicated stack, the one of the published index; every double-fault
\* invocation runs on it and no other handler does; with the table loaded a
\* delivery made while the stack pointer is invalid enters the double-fault
\* handler (the machine never resets), and that handler then runs to its end:
\* it logs and the processor halts inside it.
C12_DoubleFaultStack ==
  /\ [](IDT.built =>
          /\ EntryAt(IDT.table, DOUBLE_FAULT_VECTOR) =
               [handler |-> "double_fault", ist |-> DOUBLE_FAULT_IST_INDEX + 1]
          /\ \A g \in IDT.table : (g.ist # 0) <=> (g.vec = DOUBLE_FAULT_VECTOR))
  /\ [](\A f \in Frames :
          f.ist = IF f.h = "double_fault" THEN DOUBLE_FAULT_IST_INDEX + 1 ELSE 0)
  /\ [](cpu = "reset" => idtr = "null")
  /\ [][(idtr = "IDT" /\ rsp = "bad" /\ Len(stack') > Len(stack)) =>
          (stack'[Len(stack')].h = "double_fault" /\ cpu' = "running")]_vars
  /\ (rsp = "bad" /\ DfOnStack) ~>
       (cpu = "halted" /\ Top.h = "double_fault" /\ Top.pc = "halted"
         /\ LastLog[2] = "DOUBLE-FAULT")

\* the processor halted in the double-fault handler, entered on its dedicated
\* stack while the stack pointer was invalid
C12_Witness ==
  /\ rsp = "bad"
  /\ cpu = "halted"
  /\ \E f \in Frames : f.h = "double_fault" /\ f.pc = "halted" /\ f.ist = 1
  /\ LastLog[2] = "DOUBLE-FAULT"

\* C13: once the controllers are initialised, each of their sixteen lines has
\* a vector in 32..255, equal to the primary offset plus the line number with
\* no wrap-around in 8 bits (so the secondary offset is the primary + 8 and the
\* keyboard's vector the timer's + 1); lines 0..7 are the primary chip's and
\* 8..15 the secondary's, the two ranges share no vector and neither chip
\* answers for a vector of 0..31; every device handler was entered through a
\* vector of 32..255.
C13_DeviceVectorRange ==
  /\ picInit =>
       /\ \A l \in 0..15 :
            /\ LineVector(l) \in 32..255
            /\ LineVector(l) = PIC_1_OFFSET + l
            /\ HandlesPrimary(LineVector(l)) <=> (l < 8)
            /\ HandlesSecondary(LineVector(l)) <=> (l >= 8)
       /\ {LineVector(l) : l \in 0..7} \cap {LineVector(l) : l \in 8..15} = {}
       /\ \A v \in 0..31 : ~HandlesPrimary(v) /\ ~HandlesSecondary(v)
       /\ PIC_2_OFFSET = PIC_1_OFFSET + 8
       /\ as_u8("Timer") = LineVector(TIMER_LINE)
       /\ as_u8("Keyboard") = LineVector(KEYBOARD_LINE)
       /\ as_u8("Keyboard") = PIC_1_OFFSET + 1
  /\ \A f \in Frames :
       f.h \in DeviceHandlers => (f.vec \in 32..255 /\ f.vec = f.cause)

\* the keyboard handler entered through vector 33 after the timer's vector 32
\* was served
C13_Witness ==
  /\ picInit
  /\ lastEoi.id = 32
  /\ \E f \in Frames : f.h = "keyboard" /\ f.vec = 33

\* C14: a handler that has come to take a guard never finds it held: the
\* holder would be code the handler interrupted, which cannot run to release
\* it before the handler returns, so the handler would spin forever.  This
\* with main code that may call the public send_bye_signal.
C14_NoHandlerBlocks ==
  \A f \in Frames :
    /\ f.pc = "bye_lock" => picsLock = "free"
    /\ f.pc = "kb_lock" => kbLock = "free"

\* C15: the handler of a device vector is never on the handler stack twice;
\* an invocation that has not yet signalled end-of-interrupt has its line in
\* service at the controller; and a step that delivers a line (takes it from
\* requested to in service) happens only when that line is not in service and
\* every earlier invocation for it has signalled its end-of-interrupt.
C15_OneInstancePerVector ==
  /\ [](\A i, j \in 1..Len(stack) :
          (i # j /\ stack[i].h \in DeviceHandlers) => stack[i].h # stack[j].h)
  /\ [](\A f \in Frames :
          (f.h \in DeviceHandlers /\ f.eoi = 0) =>
            \E l \in isr : LineVector(l) = f.vec)
  /\ [][\A l \in {TIMER_LINE, KEYBOARD_LINE} :
          (l \in irr /\ l \notin irr') =>
            /\ l \notin isr
            /\ l \in isr'
            /\ \A f \in Frames : f.vec = LineVector(l) => f.eoi = 1]_vars

\* a second keyboard interrupt is being handled after the first was
\* acknowledged
C15_Witness ==
  /\ Len(fed) = 2
  /\ lastEoi.by = "keyboard"
  /\ KEYBOARD_LINE \in isr
  /\ \E f \in Frames : f.h = "keyboard" /\ f.eoi = 0

\* C16: a device handler that has signalled end-of-interrupt has only the
\* release of the controller guard and its return left; a keyboard invocation
\* signals it after it has read the port, fed the decoder and printed the key
\* if there was one; no step of an invocation that has signalled it reads the
\* port, changes the decoder or prints; and a device handler returns only
\* after it has signalled it.
C16_EoiAfterServicing ==
  /\ [](\A f \in Frames :
          (f.h \in DeviceHandlers /\ f.eoi >= 1) =>
            /\ f.pc \in {"bye_unlock", "ret"}
            /\ f.h = "keyboard" =>
                 /\ f.reads = 1
                 /\ f.res \in {"Err", "OkNone", "OkSome"}
                 /\ f.key.kind # "none" => f.emitted = 1)
  /\ [][(InHandler /\ Top.h \in DeviceHandlers /\ Top.eoi >= 1) =>
          UNCHANGED << KEYBOARD, output, fed, isr, lastEoi >>]_vars
  /\ [][(lastEoi' # lastEoi \/ (isr' \subseteq isr /\ isr' # isr)) =>
          (InHandler /\ Top.eoi = 0 /\ Top.pc = "bye_eoi"
            /\ stack'[Len(stack')].eoi = 1
            /\ UNCHANGED << KEYBOARD, output, fed >>)]_vars
  /\ [][(InHandler /\ Top.h \in DeviceHandlers /\ Len(stack') < Len(stack)) =>
          Top.eoi = 1]_vars

\* a keyboard invocation that read a byte, decoded it, printed the key and
\* then acknowledged, about to return
C16_Witness ==
  \E f \in Frames :
    /\ f.h = "keyboard"
    /\ f.pc = "ret"
    /\ f.eoi = 1
    /\ f.reads = 1
    /\ f.emitted = 1
    /\ Len(output) = 1

\* C17: every step that changes the decoder is a step of the keyboard handler:
\* its first statement, which creates the decoder (idle, no modifier) if and
\* only if it does not exist yet, or the feeding of the one byte the
\* invocation read, or the decoding of the event that byte completed; a
\* decoder once created is never un-created; and an invocation feeds the
\* decoder exactly once (not before its read, and once by the time it
\* acknowledges).
C17_DecoderFrame ==
  /\ [][KEYBOARD' # KEYBOARD =>
          (InHandler /\ Top.h = "keyboard"
            /\ Top.pc \in {"kb_lock", "kb_add_byte", "kb_process"})]_vars
  /\ [][(KEYBOARD' # KEYBOARD /\ Top.pc = "kb_lock") =>
          (~KEYBOARD.built
            /\ KEYBOARD' = [built |-> TRUE, state |-> "Start", lshift |-> FALSE])]_vars
  /\ [][(KEYBOARD' # KEYBOARD /\ Top.pc = "kb_add_byte") =>
          (Top.reads = 1 /\ Top.res = "none"
            /\ KEYBOARD' = [KEYBOARD EXCEPT
                              !.state = add_byte(KEYBOARD.state, Top.byte).state])]_vars
  /\ [][(KEYBOARD' # KEYBOARD /\ Top.pc = "kb_process") =>
          (Top.res = "OkSome" /\ KEYBOARD'.state = KEYBOARD.state
            /\ KEYBOARD'.built = KEYBOARD.built)]_vars
  /\ [][KEYBOARD.built => KEYBOARD'.built]_vars
  /\ [](\A f \in Frames :
          f.h = "keyboard" =>
            (f.res = "none" <=> f.pc \in {"kb_lock", "kb_read", "kb_add_byte"}))
  /\ [](fed # <<>> => KEYBOARD.built)

\* the decoder kept the 0xE0 prefix from one invocation to the next, which
\* completed the Home key
C17_Witness ==
  /\ fed = <<224, 71>>
  /\ KEYBOARD.built
  /\ output = <<[kind |-> "raw", text |-> "Home"]>>
  /\ \E f \in Frames : f.h = "keyboard" /\ f.pre = "Extended" /\ f.pc = "ret"

ExceptionHandlers == {"breakpoint", "page_fault", "double_fault"}

\* C18: the controllers are initialised only by the initialisation, once; the
\* PICS guard is taken and released only by a device handler inside its
\* send_bye_signal; a line leaves the in-service set only by a device
\* handler's end-of-interrupt, which is that handler's first and as_u8 of its
\* own vector; the steps of the breakpoint, page-fault and double-fault
\* handlers and init_idt leave the controller and its guard as they are, and
\* these handlers never hold the guard or come to acknowledge.
C18_ControllerFrame ==
  /\ [][picInit' # picInit => (MainRunning /\ ~picInit /\ picInit')]_vars
  /\ [][picsLock' # picsLock =>
          (InHandler /\ Top.h \in DeviceHandlers
            /\ Top.pc \in {"bye_lock", "bye_unlock"})]_vars
  /\ [][(isr' \subseteq isr /\ isr' # isr) =>
          (InHandler /\ Top.h \in DeviceHandlers /\ Top.pc = "bye_eoi"
            /\ Top.eoi = 0 /\ picsLock = Top.h
            /\ isr' = notify_end_of_interrupt(isr, Top.vec))]_vars
  /\ [][(lastEoi' # lastEoi) => isr' # isr]_vars
  /\ [][(InHandler /\ Top.h \in ExceptionHandlers /\ stack' # stack) =>
          UNCHANGED << picInit, irr, isr, picsLock, lastEoi >>]_vars
  /\ [][(loads' # loads) =>
          UNCHANGED << picInit, irr, isr, picsLock, lastEoi >>]_vars
  /\ [][(InHandler /\ Top.h \in DeviceHandlers /\ stack' # stack) =>
          (UNCHANGED << picInit, irr >> /\ (isr' # isr => Top.pc = "bye_eoi"))]_vars
  /\ [](picsLock \in {"free"} \cup DeviceHandlers)
  /\ [](\A f \in Frames :
          f.h \in ExceptionHandlers =>
            (f.eoi = 0 /\ f.arg = "none"
              /\ f.pc \notin {"bye_lock", "bye_eoi", "bye_unlock"}))

\* the breakpoint handler ran and init_idt was called again with a line in
\* request, after a device handler acknowledged
C18_Witness ==
  /\ loads = 2
  /\ lastEoi.by \in DeviceHandlers
  /\ irr # {}
  /\ \E k \in 1..Len(log) : log[k][2] = "BREAKPOINT"

InBye == {"bye_eoi", "bye_unlock"}

\* C19: the decoder guard is held exactly while a keyboard invocation is past
\* its first statement and has not returned - through the read, the decoding,
\* the output and the acknowledgement; the controller guard is held exactly
\* while a device handler is between PICS.lock() and the end of that statement
\* in send_bye_signal, by that handler; when the keyboard handler holds the
\* controller guard it holds the decoder guard (taken first), and it never
\* waits for the decoder guard while holding the controller guard; the timer
\* handler never holds the decoder guard; a handler about to return holds no
\* controller guard; with no handler executing both guards are free.
C19_LockDiscipline ==
  /\ kbLock \in {"free", "keyboard"}
  /\ picsLock \in {"free", "timer", "keyboard"}
  /\ kbLock = "keyboard" <=>
       (\E f \in Frames : f.h = "keyboard" /\ f.pc # "kb_lock")
  /\ \A h \in DeviceHandlers :
       picsLock = h <=> (\E f \in Frames : f.h = h /\ f.pc \in InBye)
  /\ picsLock = "keyboard" => kbLock = "keyboard"
  /\ \A f \in Frames :
       /\ f.pc = "kb_lock" => picsLock # f.h
       /\ f.pc = "ret" => picsLock # f.h
  /\ stack = <<>> => (kbLock = "free" /\ picsLock = "free")

\* the keyboard handler holds the controller guard inside the decoder guard
C19_Witness ==
  /\ picsLock = "keyboard"
  /\ kbLock = "keyboard"
  /\ lastEoi.by = "timer"
  /\ Len(output) = 1
  /\ \E f \in Frames : f.h = "keyboard" /\ f.pc = "bye_eoi"

\* C20: whenever the CPU has a table loaded, the static is built and the
\* table the CPU dispatches through has the five handlers at their vectors
\* and the double fault's stack index; the initialiser of the table has run
\* at most once, exactly once from the first init_idt on however many calls
\* follow, and not at all before the first call.
C20_BuiltBeforeLoaded ==
  /\ idtr = "IDT" =>
       /\ IDT.built
       /\ \A v \in {3, 8, 14, 32, 33} :
            EntryAt(CpuTable, v).handler = ExpectedHandler(v)
       /\ EntryAt(CpuTable, DOUBLE_FAULT_VECTOR).ist = DOUBLE_FAULT_IST_INDEX + 1
       /\ Cardinality(CpuTable) = 5
  /\ IDT.runs <= 1
  /\ IDT.built <=> IDT.runs = 1
  /\ loads >= 1 <=> IDT.built
  /\ loads >= 1 <=> idtr = "IDT"

\* init_idt was called twice, the table was built once, and a keyboard
\* interrupt was dispatched through it
C20_Witness ==
  /\ loads = 2
  /\ IDT.runs = 1
  /\ idtr = "IDT"
  /\ Len(fed) >= 1

====
